---- MODULE Spec2Model ----
(***************************************************************************)
(* FusionHtlc (polkadotrelayer/src/lib.rs): a hashed-timelock escrow.      *)
(* A sender locks value for a receiver under a hashlock and a timelock;    *)
(* the receiver (or the contract's registered relayer) withdraws with the  *)
(* preimage before the timelock, the sender refunds from the timelock on.  *)
(*                                                                         *)
(* The program state is the storage struct FusionHtlc.  The host supplies  *)
(* the caller, the attached value, the block number and the value          *)
(* transfer; they are the inputs of the actions and the variables          *)
(* block_number, balance and paid.  Each message is one action, translated *)
(* statement by statement: a storage write made before an error return is  *)
(* part of what the message leaves behind.                                 *)
(* Balance has BalanceBits bits and contract_counter CounterBits bits: the *)
(* amounts and the numbers of creations of the specifications stay far     *)
(* from the top of either range, except where an input is written in terms *)
(* of BalanceMax or a specification runs the counter up to CounterMax.     *)
(* released and unswept record what has happened (transfers made per       *)
(* contract, ids created since the last fee sweep) and are read by no      *)
(* message.                                                                *)
(* map_address and the read-only messages touch none of this state and    *)
(* are left out.                                                           *)
(***************************************************************************)
EXTENDS Integers, Sequences, FiniteSets, TLC

VARIABLES
    contracts,          \* Mapping<[u8; 32], LockContract>
    contract_counter,   \* u64
    admin,              \* Address
    protocol_fee_bps,   \* u16
    protocol_fees,      \* Balance
    block_number,       \* host: self.env().block_number()
    balance,            \* host: value held by the contract account
    paid,               \* host: value each account has received from the contract
    released,           \* per contract id, the transfers made out of its escrow
    unswept,            \* the ids created since the last successful fee sweep
    last                \* the last message called and what it returned

vars == << contracts, contract_counter, admin, protocol_fee_bps, protocol_fees,
           block_number, balance, paid, released, unswept, last >>

(***************************************************************************)
(* Bounds of the model and constants of the program.                       *)
(***************************************************************************)
MaxContracts == 1
MaxRepeat == 3
MaxBlock == 101
BalanceBits == 29
CounterBits == 3

\* FusionHtlc::new: the two timelock fields are set once and never written.
min_timelock == 100
max_timelock == 14400
InitialFeeBps == 30
MaxFeeBps == 1000
BpsDenominator == 10000

\* Balance is a u128; the model gives it BalanceBits bits.
BalanceMax == 2 ^ BalanceBits - 1

\* The least amount whose product with the highest fee rate does not fit
\* the balance type (checked_mul of lib.rs:495 gives None).
OverflowValue == BalanceMax \div MaxFeeBps + 1

\* contract_counter is a u64; the model gives it CounterBits bits.
CounterMax == 2 ^ CounterBits - 1

Accounts == {"alice", "bob", "carol"}
Deployer == "alice"

None == << >>
Some(x) == << x >>

Ok == "Ok"

\* 32-byte values (hashlocks, preimages, swap ids) are small naturals.
Preimages == {1, 2, 4}
Hashlocks == {4}
SwapId == 2
DestAmount == 900
UnknownId == << "unknown" >>

(***************************************************************************)
(* compute_sha256: a fixed injective map that is not the identity on the   *)
(* values used (1 -> 4, 2 -> 0, 4 -> 6), standing for SHA-256.             *)
(***************************************************************************)
compute_sha256(data) == (3 * data + 1) % 7

(***************************************************************************)
(* Private helpers.  A helper that returns Result<(), Error> is the name   *)
(* of the error it returns, or Ok.                                         *)
(***************************************************************************)

\* Faulty variant: the zero check of lib.rs:422-424 is missing.
get_transferred_balance_zero_accepted(value) ==
    IF value > BalanceMax THEN "ConversionError"
    ELSE Ok

\* get_transferred_balance: the attached value, non-zero and within u128.
get_transferred_balance(value) ==
    IF value = 0 THEN "InsufficientFunds"
    ELSE IF value > BalanceMax THEN "ConversionError"
    ELSE Ok


\* Faulty variant: <= for < in lib.rs:457.
validate_timelock_internal_exclusive_min(timelock) ==
    IF timelock <= block_number THEN "InvalidTimelock"
    ELSE LET time_diff == timelock - block_number
         IN  IF time_diff <= min_timelock THEN "TimelockTooShort"
             ELSE IF time_diff > max_timelock THEN "TimelockTooLong"
             ELSE Ok

validate_timelock_internal(timelock) ==
    IF timelock <= block_number THEN "InvalidTimelock"
    ELSE LET time_diff == timelock - block_number
         IN  IF time_diff < min_timelock THEN "TimelockTooShort"
             ELSE IF time_diff > max_timelock THEN "TimelockTooLong"
             ELSE Ok


\* Faulty variant: the chain check of lib.rs:484-487 left out.
validate_contract_params_no_chain_check(timelock, source_chain, dest_chain) ==
    validate_timelock_internal(timelock)

validate_contract_params(timelock, source_chain, dest_chain) ==
    LET t == validate_timelock_internal(timelock)
    IN  IF t # Ok THEN t
        ELSE IF source_chain = dest_chain THEN "InvalidChainId"
        ELSE Ok


\* Faulty variant: wrapping multiplication for checked_mul (lib.rs:496).
calculate_fees_wrapping(amount) ==
    LET product == (amount * protocol_fee_bps) % (BalanceMax + 1)
        fee == product \div BpsDenominator
    IN  IF fee > amount
        THEN [result |-> "Overflow", net_amount |-> 0, fee |-> 0]
        ELSE [result |-> Ok, net_amount |-> amount - fee, fee |-> fee]

\* Faulty variant: the fee rounded up.
calculate_fees_rounded_up(amount) ==
    LET product == amount * protocol_fee_bps
    IN  IF product > BalanceMax
        THEN [result |-> "Overflow", net_amount |-> 0, fee |-> 0]
        ELSE LET fee == (product + BpsDenominator - 1) \div BpsDenominator
             IN  IF fee > amount
                 THEN [result |-> "Overflow", net_amount |-> 0, fee |-> 0]
                 ELSE [result |-> Ok, net_amount |-> amount - fee, fee |-> fee]

\* calculate_fees: checked_mul, checked_div, checked_sub on Balance.
calculate_fees(amount) ==
    LET product == amount * protocol_fee_bps
    IN  IF product > BalanceMax
        THEN [result |-> "Overflow", net_amount |-> 0, fee |-> 0]
        ELSE LET fee == product \div BpsDenominator
             IN  IF fee > amount
                 THEN [result |-> "Overflow", net_amount |-> 0, fee |-> 0]
                 ELSE [result |-> Ok, net_amount |-> amount - fee, fee |-> fee]

\* Balance::checked_add as new_contract uses it on protocol_fees (lib.rs:239).
checked_add(a, b) ==
    IF a + b > BalanceMax THEN None ELSE Some(a + b)

\* Faulty variant: the counter (lib.rs:630) is left out of the hashed data.
generate_contract_id_without_counter(sender, receiver, amount, hashlock, timelock, swap_id, counter) ==
    << sender, receiver, amount, hashlock, timelock, swap_id, 0 >>

\* generate_contract_id: the hash of the concatenated fields and of the
\* counter after its increment; the hash is injective, so the id is the tuple.
generate_contract_id(sender, receiver, amount, hashlock, timelock, swap_id, counter) ==
    << sender, receiver, amount, hashlock, timelock, swap_id, counter >>

get_contract_or_error(contract_id) ==
    IF contract_id \in DOMAIN contracts THEN Ok ELSE "ContractNotFound"


\* Faulty variant: the processed check (lib.rs:521-523) made before the
\* caller check (517-519).
validate_withdrawal_auth_processed_first(contract_id, caller) ==
    IF get_contract_or_error(contract_id) # Ok THEN "ContractNotFound"
    ELSE LET contract == contracts[contract_id]
         IN  IF contract.withdrawn \/ contract.refunded
             THEN "AlreadyProcessed"
             ELSE IF contract.receiver # caller /\ contract.relayer # Some(caller)
             THEN "UnauthorizedWithdraw"
             ELSE Ok

\* Faulty variant: the processed check of lib.rs:521-523 left out.
validate_withdrawal_auth_no_processed_check(contract_id, caller) ==
    IF get_contract_or_error(contract_id) # Ok THEN "ContractNotFound"
    ELSE LET contract == contracts[contract_id]
         IN  IF contract.receiver # caller /\ contract.relayer # Some(caller)
             THEN "UnauthorizedWithdraw"
             ELSE Ok

\* Faulty variant: the caller check of lib.rs:517-519 left out.
validate_withdrawal_auth_any_caller(contract_id, caller) ==
    IF get_contract_or_error(contract_id) # Ok THEN "ContractNotFound"
    ELSE LET contract == contracts[contract_id]
         IN  IF contract.withdrawn \/ contract.refunded
             THEN "AlreadyProcessed"
             ELSE Ok

validate_withdrawal_auth(contract_id, caller) ==
    IF get_contract_or_error(contract_id) # Ok THEN "ContractNotFound"
    ELSE LET contract == contracts[contract_id]
         IN  IF contract.receiver # caller /\ contract.relayer # Some(caller)
             THEN "UnauthorizedWithdraw"
             ELSE IF contract.withdrawn \/ contract.refunded
             THEN "AlreadyProcessed"
             ELSE Ok


\* Faulty variant: > for >= in lib.rs:531.
validate_withdrawal_timing_inclusive(contract) ==
    IF block_number > contract.timelock THEN "TimelockExpired" ELSE Ok

validate_withdrawal_timing(contract) ==
    IF block_number >= contract.timelock THEN "TimelockExpired" ELSE Ok


\* Faulty variant: the processed check of lib.rs:549-551 left out.
validate_refund_auth_no_processed_check(contract_id, caller) ==
    IF get_contract_or_error(contract_id) # Ok THEN "ContractNotFound"
    ELSE LET contract == contracts[contract_id]
         IN  IF contract.sender # caller
             THEN "UnauthorizedRefund"
             ELSE Ok

\* Faulty variant: the caller check of lib.rs:545-547 left out.
validate_refund_auth_any_caller(contract_id, caller) ==
    IF get_contract_or_error(contract_id) # Ok THEN "ContractNotFound"
    ELSE LET contract == contracts[contract_id]
         IN  IF contract.withdrawn \/ contract.refunded
             THEN "AlreadyProcessed"
             ELSE Ok

validate_refund_auth(contract_id, caller) ==
    IF get_contract_or_error(contract_id) # Ok THEN "ContractNotFound"
    ELSE LET contract == contracts[contract_id]
         IN  IF contract.sender # caller
             THEN "UnauthorizedRefund"
             ELSE IF contract.withdrawn \/ contract.refunded
             THEN "AlreadyProcessed"
             ELSE Ok

\* Faulty variant: <= for < in lib.rs:559.
validate_refund_timing_exclusive(contract) ==
    IF block_number <= contract.timelock THEN "TimelockNotExpired" ELSE Ok

validate_refund_timing(contract) ==
    IF block_number < contract.timelock THEN "TimelockNotExpired" ELSE Ok


\* Faulty variant: every preimage is accepted.
validate_preimage_any(contract, preimage) == Ok

\* Faulty variant: the preimage compared with the hashlock without being hashed.
validate_preimage_unhashed(contract, preimage) ==
    IF preimage # contract.hashlock THEN "InvalidHashlock" ELSE Ok

validate_preimage(contract, preimage) ==
    IF compute_sha256(preimage) # contract.hashlock THEN "InvalidHashlock" ELSE Ok

\* execute_transfer: the host's transfer; transfer_ok is the host's answer for
\* a transfer the balance covers, and a transfer it does not cover fails.
execute_transfer(to, amount, transfer_ok) ==
    IF transfer_ok /\ amount <= balance
    THEN [result |-> Ok, balance |-> balance - amount,
          paid |-> [paid EXCEPT ![to] = @ + amount]]
    ELSE [result |-> "TransferFailed", balance |-> balance, paid |-> paid]

\* Faulty variant: the caller is compared with the deployer, not self.admin.
ensure_admin_deployer(caller) ==
    IF caller # Deployer THEN "Unauthorized" ELSE Ok

ensure_admin(caller) ==
    IF caller # admin THEN "Unauthorized" ELSE Ok


\* Faulty variant: the withdrawn amount sent to the registered relayer.
withdraw_transfer_to_relayer(contract, transfer_ok) ==
    execute_transfer(IF contract.relayer # None THEN contract.relayer[1]
                     ELSE contract.receiver,
                     contract.amount, transfer_ok)

\* The transfer a withdraw makes (lib.rs:282) and the one a refund makes (303).
withdraw_transfer(contract, transfer_ok) ==
    execute_transfer(contract.receiver, contract.amount, transfer_ok)

refund_transfer(contract, transfer_ok) ==
    execute_transfer(contract.sender, contract.amount, transfer_ok)

Returned(op, result) == [op |-> op, result |-> result]

\* Faulty variant: the insert drops the records stored before.
Insert_alone(contract_id, contract) ==
    [id \in {contract_id} |-> contract]

Insert(contract_id, contract) ==
    [id \in DOMAIN contracts \cup {contract_id} |->
        IF id = contract_id THEN contract ELSE contracts[id]]

(***************************************************************************)
(* Constructor.                                                            *)
(***************************************************************************)
Init ==
    /\ contracts = [id \in {} |-> 0]
    /\ contract_counter = 0
    /\ admin = Deployer
    /\ protocol_fee_bps = InitialFeeBps
    /\ protocol_fees = 0
    /\ block_number = 1
    /\ balance = 0
    /\ paid = [a \in Accounts |-> 0]
    /\ released = [id \in {} |-> 0]
    /\ unswept = {}
    /\ last = Returned("new", Ok)

(***************************************************************************)
(* Messages.                                                               *)
(***************************************************************************)

\* new_contract (payable).  The host credits the attached value to the
\* contract when the call returns Ok and hands it back when it fails.
\* The increment of the counter (lib.rs:621) is an unchecked +=: at the top
\* of its range the build either wraps it to 0 or panics, and a panic ends
\* the call before any write.
new_contract(caller, receiver, hashlock, timelock, swap_id, source_chain, dest_chain, dest_amount, value) ==
    LET sender == caller
        funds  == get_transferred_balance(value)
        params == validate_contract_params(timelock, source_chain, dest_chain)
        fees   == calculate_fees(value)
        counter == (contract_counter + 1) % (CounterMax + 1)
        contract_id == generate_contract_id(sender, receiver, fees.net_amount,
                                            hashlock, timelock, swap_id, counter)
        contract == [ sender |-> sender, receiver |-> receiver,
                      amount |-> fees.net_amount, hashlock |-> hashlock,
                      timelock |-> timelock, withdrawn |-> FALSE,
                      refunded |-> FALSE, preimage |-> None,
                      swap_id |-> swap_id, source_chain |-> source_chain,
                      dest_chain |-> dest_chain, dest_amount |-> dest_amount,
                      fee |-> fees.fee, relayer |-> None ]
    IN  /\ UNCHANGED << admin, protocol_fee_bps, block_number, paid >>
        /\ IF funds # Ok
           THEN /\ last' = Returned("new_contract", funds)
                /\ UNCHANGED << contracts, contract_counter, protocol_fees,
                                balance, released, unswept >>
           ELSE IF params # Ok
           THEN /\ last' = Returned("new_contract", params)
                /\ UNCHANGED << contracts, contract_counter, protocol_fees,
                                balance, released, unswept >>
           ELSE IF fees.result # Ok
           THEN /\ last' = Returned("new_contract", fees.result)
                /\ UNCHANGED << contracts, contract_counter, protocol_fees,
                                balance, released, unswept >>
           ELSE \/ /\ contract_counter = CounterMax
                   /\ last' = Returned("new_contract", "Panic")
                   /\ UNCHANGED << contracts, contract_counter, protocol_fees,
                                   balance, released, unswept >>
                \/ /\ contract_counter' = counter
                   /\ IF contract_id \in DOMAIN contracts
                      THEN /\ last' = Returned("new_contract", "ContractAlreadyExists")
                           /\ UNCHANGED << contracts, protocol_fees, balance, released,
                                           unswept >>
                      ELSE /\ contracts' = Insert(contract_id, contract)
                           /\ released' = [id \in DOMAIN released \cup {contract_id} |->
                                             IF id = contract_id THEN 0 ELSE released[id]]
                           /\ unswept' = unswept \cup {contract_id}
                           /\ IF checked_add(protocol_fees, fees.fee) = None
                              THEN /\ last' = Returned("new_contract", "Overflow")
                                   /\ UNCHANGED << protocol_fees, balance >>
                              ELSE /\ protocol_fees' =
                                        checked_add(protocol_fees, fees.fee)[1]
                                   /\ balance' = balance + value
                                   /\ last' = Returned("new_contract", Ok)

\* Faulty variant: the check of lib.rs:251-253 is missing.
register_relayer_overwrites(caller, contract_id) ==
    /\ UNCHANGED << contract_counter, admin, protocol_fee_bps, protocol_fees,
                    block_number, balance, paid, released, unswept >>
    /\ IF get_contract_or_error(contract_id) # Ok
       THEN /\ last' = Returned("register_relayer", "ContractNotFound")
            /\ UNCHANGED contracts
       ELSE /\ contracts' = [contracts EXCEPT ![contract_id].relayer = Some(caller)]
            /\ last' = Returned("register_relayer", Ok)

register_relayer(caller, contract_id) ==
    /\ UNCHANGED << contract_counter, admin, protocol_fee_bps, protocol_fees,
                    block_number, balance, paid, released, unswept >>
    /\ IF get_contract_or_error(contract_id) # Ok
       THEN /\ last' = Returned("register_relayer", "ContractNotFound")
            /\ UNCHANGED contracts
       ELSE IF contracts[contract_id].relayer # None
       THEN /\ last' = Returned("register_relayer", "RelayerAlreadySet")
            /\ UNCHANGED contracts
       ELSE /\ contracts' = [contracts EXCEPT ![contract_id].relayer = Some(caller)]
            /\ last' = Returned("register_relayer", Ok)

\* withdraw: the record is written (lib.rs:278-280) before the transfer (282).
withdraw(caller, contract_id, preimage, transfer_ok) ==
    LET auth == validate_withdrawal_auth(contract_id, caller)
    IN  /\ UNCHANGED << contract_counter, admin, protocol_fee_bps, protocol_fees,
                        block_number, unswept >>
        /\ IF auth # Ok
           THEN /\ last' = Returned("withdraw", auth)
                /\ UNCHANGED << contracts, balance, paid, released >>
           ELSE LET contract == contracts[contract_id]
                    timing == validate_withdrawal_timing(contract)
                    secret == validate_preimage(contract, preimage)
                    sent   == withdraw_transfer(contract, transfer_ok)
                IN  IF timing # Ok
                    THEN /\ last' = Returned("withdraw", timing)
                         /\ UNCHANGED << contracts, balance, paid, released >>
                    ELSE IF secret # Ok
                    THEN /\ last' = Returned("withdraw", secret)
                         /\ UNCHANGED << contracts, balance, paid, released >>
                    ELSE /\ contracts' = [contracts EXCEPT ![contract_id] =
                                [contract EXCEPT !.withdrawn = TRUE,
                                                 !.preimage = Some(preimage)]]
                         /\ balance' = sent.balance
                         /\ paid' = sent.paid
                         /\ released' = IF sent.result = Ok
                                        THEN [released EXCEPT ![contract_id] = @ + 1]
                                        ELSE released
                         /\ last' = Returned("withdraw", sent.result)

\* refund: the record is written (lib.rs:300-301) before the transfer (303).
refund(caller, contract_id, transfer_ok) ==
    LET auth == validate_refund_auth(contract_id, caller)
    IN  /\ UNCHANGED << contract_counter, admin, protocol_fee_bps, protocol_fees,
                        block_number, unswept >>
        /\ IF auth # Ok
           THEN /\ last' = Returned("refund", auth)
                /\ UNCHANGED << contracts, balance, paid, released >>
           ELSE LET contract == contracts[contract_id]
                    timing == validate_refund_timing(contract)
                    sent   == refund_transfer(contract, transfer_ok)
                IN  IF timing # Ok
                    THEN /\ last' = Returned("refund", timing)
                         /\ UNCHANGED << contracts, balance, paid, released >>
                    ELSE /\ contracts' = [contracts EXCEPT ![contract_id].refunded = TRUE]
                         /\ balance' = sent.balance
                         /\ paid' = sent.paid
                         /\ released' = IF sent.result = Ok
                                        THEN [released EXCEPT ![contract_id] = @ + 1]
                                        ELSE released
                         /\ last' = Returned("refund", sent.result)

update_admin(caller, new_admin) ==
    /\ UNCHANGED << contracts, contract_counter, protocol_fee_bps, protocol_fees,
                    block_number, balance, paid, released, unswept >>
    /\ IF ensure_admin(caller) # Ok
       THEN /\ last' = Returned("update_admin", "Unauthorized")
            /\ UNCHANGED admin
       ELSE /\ admin' = new_admin
            /\ last' = Returned("update_admin", Ok)

\* Faulty variant: the bound check of lib.rs:391-393 is missing.
update_protocol_fee_unbounded(caller, new_fee_bps) ==
    /\ UNCHANGED << contracts, contract_counter, admin, protocol_fees,
                    block_number, balance, paid, released, unswept >>
    /\ IF ensure_admin(caller) # Ok
       THEN /\ last' = Returned("update_protocol_fee", "Unauthorized")
            /\ UNCHANGED protocol_fee_bps
       ELSE /\ protocol_fee_bps' = new_fee_bps
            /\ last' = Returned("update_protocol_fee", Ok)

update_protocol_fee(caller, new_fee_bps) ==
    /\ UNCHANGED << contracts, contract_counter, admin, protocol_fees,
                    block_number, balance, paid, released, unswept >>
    /\ IF ensure_admin(caller) # Ok
       THEN /\ last' = Returned("update_protocol_fee", "Unauthorized")
            /\ UNCHANGED protocol_fee_bps
       ELSE IF new_fee_bps > MaxFeeBps
       THEN /\ last' = Returned("update_protocol_fee", "InvalidFee")
            /\ UNCHANGED protocol_fee_bps
       ELSE /\ protocol_fee_bps' = new_fee_bps
            /\ last' = Returned("update_protocol_fee", Ok)

\* Faulty variant: the restore of lib.rs:410 is missing.
withdraw_protocol_fees_no_restore(caller, transfer_ok) ==
    LET fees == protocol_fees
        sent == execute_transfer(admin, fees, transfer_ok)
    IN  /\ UNCHANGED << contracts, contract_counter, admin, protocol_fee_bps,
                        block_number, released >>
        /\ IF ensure_admin(caller) # Ok
           THEN /\ last' = Returned("withdraw_protocol_fees", "Unauthorized")
                /\ UNCHANGED << protocol_fees, balance, paid, unswept >>
           ELSE IF fees = 0
           THEN /\ last' = Returned("withdraw_protocol_fees", "InsufficientFunds")
                /\ UNCHANGED << protocol_fees, balance, paid, unswept >>
           ELSE IF sent.result # Ok
           THEN /\ protocol_fees' = 0
                /\ last' = Returned("withdraw_protocol_fees", "TransferFailed")
                /\ UNCHANGED << balance, paid, unswept >>
           ELSE /\ protocol_fees' = 0
                /\ balance' = sent.balance
                /\ paid' = sent.paid
                /\ unswept' = {}
                /\ last' = Returned("withdraw_protocol_fees", Ok)

\* Faulty variant: the fees go to the deployer, not to self.admin (lib.rs:408).
withdraw_protocol_fees_to_deployer(caller, transfer_ok) ==
    LET fees == protocol_fees
        sent == execute_transfer(Deployer, fees, transfer_ok)
    IN  /\ UNCHANGED << contracts, contract_counter, admin, protocol_fee_bps,
                        block_number, released >>
        /\ IF ensure_admin(caller) # Ok
           THEN /\ last' = Returned("withdraw_protocol_fees", "Unauthorized")
                /\ UNCHANGED << protocol_fees, balance, paid, unswept >>
           ELSE IF fees = 0
           THEN /\ last' = Returned("withdraw_protocol_fees", "InsufficientFunds")
                /\ UNCHANGED << protocol_fees, balance, paid, unswept >>
           ELSE IF sent.result # Ok
           THEN /\ protocol_fees' = fees
                /\ last' = Returned("withdraw_protocol_fees", "TransferFailed")
                /\ UNCHANGED << balance, paid, unswept >>
           ELSE /\ protocol_fees' = 0
                /\ balance' = sent.balance
                /\ paid' = sent.paid
                /\ unswept' = {}
                /\ last' = Returned("withdraw_protocol_fees", Ok)

\* withdraw_protocol_fees: zeroes the fees, transfers, restores on failure.
withdraw_protocol_fees(caller, transfer_ok) ==
    LET fees == protocol_fees
        sent == execute_transfer(admin, fees, transfer_ok)
    IN  /\ UNCHANGED << contracts, contract_counter, admin, protocol_fee_bps,
                        block_number, released >>
        /\ IF ensure_admin(caller) # Ok
           THEN /\ last' = Returned("withdraw_protocol_fees", "Unauthorized")
                /\ UNCHANGED << protocol_fees, balance, paid, unswept >>
           ELSE IF fees = 0
           THEN /\ last' = Returned("withdraw_protocol_fees", "InsufficientFunds")
                /\ UNCHANGED << protocol_fees, balance, paid, unswept >>
           ELSE IF sent.result # Ok
           THEN /\ protocol_fees' = fees
                /\ last' = Returned("withdraw_protocol_fees", "TransferFailed")
                /\ UNCHANGED << balance, paid, unswept >>
           ELSE /\ protocol_fees' = 0
                /\ balance' = sent.balance
                /\ paid' = sent.paid
                /\ unswept' = {}
                /\ last' = Returned("withdraw_protocol_fees", Ok)

\* get_secret (a view): the stored preimage of the contract, if there is one.
get_secret(contract_id) ==
    IF contract_id \in DOMAIN contracts
    THEN contracts[contract_id].preimage
    ELSE None

\* The host: the block number of the next call is later by `blocks`.
advance_block(blocks) ==
    /\ block_number + blocks <= MaxBlock
    /\ block_number' = block_number + blocks
    /\ last' = Returned("advance_block", Ok)
    /\ UNCHANGED << contracts, contract_counter, admin, protocol_fee_bps,
                    protocol_fees, balance, paid, released, unswept >>

(***************************************************************************)
(* Spec: the life of a contract.  Every message, called by every account,  *)
(* on the stored ids and on an unknown one.                                *)
(***************************************************************************)
Ids == DOMAIN contracts \cup {UnknownId}
Senders == {"alice"}
Receivers == {"bob"}
Relayers == {"carol"}
NewAdmins == {"bob"}
BlockSteps == {min_timelock}
TimelockOffsets == {0, min_timelock}
Values == {0, 1000}
FeeRates == {InitialFeeBps, MaxFeeBps + 1}

Next ==
    \/ /\ Cardinality(DOMAIN contracts) < MaxContracts
       /\ \E caller \in Senders, receiver \in Receivers, hashlock \in Hashlocks,
             offset \in TimelockOffsets, dest_chain \in {1, 2}, value \in Values :
            new_contract(caller, receiver, hashlock, block_number + offset,
                         SwapId, 1, dest_chain, DestAmount, value)
    \/ \E caller \in Relayers, contract_id \in Ids :
            register_relayer(caller, contract_id)
    \/ \E caller \in Accounts, contract_id \in Ids, preimage \in Preimages,
          transfer_ok \in BOOLEAN :
            withdraw(caller, contract_id, preimage, transfer_ok)
    \/ \E caller \in Accounts, contract_id \in Ids, transfer_ok \in BOOLEAN :
            refund(caller, contract_id, transfer_ok)
    \/ \E caller \in Accounts, new_admin \in NewAdmins :
            update_admin(caller, new_admin)
    \/ \E caller \in Accounts, new_fee_bps \in FeeRates :
            update_protocol_fee(caller, new_fee_bps)
    \/ \E caller \in Accounts, transfer_ok \in BOOLEAN :
            withdraw_protocol_fees(caller, transfer_ok)
    \/ \E blocks \in BlockSteps :
            advance_block(blocks)

Spec == Init /\ [][Next]_vars

(***************************************************************************)
(* SpecCreate: contract creation over a range of attached values, fee      *)
(* rates, timelocks and chain pairs.                                       *)
(***************************************************************************)
CreateValues == {0, 1000, 3334, 20000, OverflowValue}
CreateFeeRates == {0, InitialFeeBps, MaxFeeBps, MaxFeeBps + 1}
CreateOffsets == {-1, 0, 1, min_timelock - 1, min_timelock,
                  max_timelock, max_timelock + 1}
SourceChains == {1}
Chains == {1, 2}

NextCreate ==
    \/ /\ Cardinality(DOMAIN contracts) < MaxContracts
       /\ \E caller \in Senders, receiver \in Receivers, hashlock \in Hashlocks,
             offset \in CreateOffsets, source_chain \in SourceChains,
             dest_chain \in Chains, value \in CreateValues :
            new_contract(caller, receiver, hashlock, block_number + offset,
                         SwapId, source_chain, dest_chain, DestAmount, value)
    \/ \E caller \in Accounts, new_fee_bps \in CreateFeeRates :
            update_protocol_fee(caller, new_fee_bps)
    \/ \E blocks \in BlockSteps :
            advance_block(blocks)

SpecCreate == Init /\ [][NextCreate]_vars

(***************************************************************************)
(* SpecLive: Spec with the scheduling the refund guarantee assumes.  The   *)
(* block number keeps advancing, and the sender of a contract that is      *)
(* still open at its timelock calls refund, with a transfer the host       *)
(* carries out.  A contract is created only while the model's last block   *)
(* is not before its timelock.                                             *)
(***************************************************************************)
RefundDue ==
    \E contract_id \in DOMAIN contracts :
        /\ ~contracts[contract_id].withdrawn
        /\ ~contracts[contract_id].refunded
        /\ block_number >= contracts[contract_id].timelock
        /\ refund(contracts[contract_id].sender, contract_id, TRUE)

NextLive ==
    \/ /\ Cardinality(DOMAIN contracts) < MaxContracts
       /\ \E caller \in Senders, receiver \in Receivers, hashlock \in Hashlocks,
             offset \in TimelockOffsets, dest_chain \in {1, 2}, value \in Values :
            /\ block_number + offset <= MaxBlock
            /\ new_contract(caller, receiver, hashlock, block_number + offset,
                            SwapId, 1, dest_chain, DestAmount, value)
    \/ \E caller \in Relayers, contract_id \in Ids :
            register_relayer(caller, contract_id)
    \/ \E caller \in Accounts, contract_id \in Ids, preimage \in Preimages,
          transfer_ok \in BOOLEAN :
            withdraw(caller, contract_id, preimage, transfer_ok)
    \/ \E caller \in Accounts, contract_id \in Ids, transfer_ok \in BOOLEAN :
            refund(caller, contract_id, transfer_ok)
    \/ \E caller \in Accounts, new_admin \in NewAdmins :
            update_admin(caller, new_admin)
    \/ \E caller \in Accounts, new_fee_bps \in FeeRates :
            update_protocol_fee(caller, new_fee_bps)
    \/ \E caller \in Accounts, transfer_ok \in BOOLEAN :
            withdraw_protocol_fees(caller, transfer_ok)
    \/ \E blocks \in BlockSteps :
            advance_block(blocks)

SpecLive ==
    /\ Init
    /\ [][NextLive]_vars
    /\ WF_vars(\E blocks \in BlockSteps : advance_block(blocks))
    /\ WF_vars(RefundDue)

(***************************************************************************)
(* SpecSettle: the messages that act on a contract record, called by every *)
(* account on stored and unknown ids, without the admin's messages.        *)
(***************************************************************************)
NextSettle ==
    \/ /\ Cardinality(DOMAIN contracts) < MaxContracts
       /\ \E caller \in Senders, receiver \in Receivers, hashlock \in Hashlocks :
            new_contract(caller, receiver, hashlock, block_number + min_timelock,
                         SwapId, 1, 2, DestAmount, 1000)
    \/ \E caller \in Relayers, contract_id \in Ids :
            register_relayer(caller, contract_id)
    \/ \E caller \in Accounts, contract_id \in Ids, preimage \in Preimages,
          transfer_ok \in BOOLEAN :
            withdraw(caller, contract_id, preimage, transfer_ok)
    \/ \E caller \in Accounts, contract_id \in Ids, transfer_ok \in BOOLEAN :
            refund(caller, contract_id, transfer_ok)
    \/ \E blocks \in BlockSteps :
            advance_block(blocks)

SpecSettle == Init /\ [][NextSettle]_vars

(***************************************************************************)
(* SpecPair: several contracts side by side, one more than in Spec, each   *)
(* registered, withdrawn or refunded on its own, under two fee rates, with *)
(* transfers the host carries out.                                         *)
(***************************************************************************)
PairPreimages == {1, 2}
PairFeeRates == {InitialFeeBps, MaxFeeBps}

NextPair ==
    \/ /\ Cardinality(DOMAIN contracts) < MaxContracts + 1
       /\ \E caller \in Senders, receiver \in Receivers, hashlock \in Hashlocks :
            new_contract(caller, receiver, hashlock, block_number + min_timelock,
                         SwapId, 1, 2, DestAmount, 1000)
    \/ \E caller \in Relayers, contract_id \in DOMAIN contracts :
            register_relayer(caller, contract_id)
    \/ \E caller \in Receivers, contract_id \in DOMAIN contracts,
          preimage \in PairPreimages :
            withdraw(caller, contract_id, preimage, TRUE)
    \/ \E caller \in Senders, contract_id \in DOMAIN contracts :
            refund(caller, contract_id, TRUE)
    \/ \E new_fee_bps \in PairFeeRates :
            update_protocol_fee(admin, new_fee_bps)
    \/ \E blocks \in BlockSteps :
            advance_block(blocks)

SpecPair == Init /\ [][NextPair]_vars

(***************************************************************************)
(* SpecRepeat: repeated creations, also with the same parameters, under    *)
(* two fee rates, with fee sweeps in between.                              *)
(***************************************************************************)
RepeatValues == {0, 1000, 20000}
RepeatFeeRates == {InitialFeeBps, MaxFeeBps}

NextRepeat ==
    \/ /\ Cardinality(DOMAIN contracts) < MaxRepeat
       /\ \E caller \in Senders, receiver \in Receivers, hashlock \in Hashlocks,
             offset \in TimelockOffsets, dest_chain \in Chains,
             value \in RepeatValues :
            new_contract(caller, receiver, hashlock, block_number + offset,
                         SwapId, 1, dest_chain, DestAmount, value)
    \/ \E caller \in Accounts, new_fee_bps \in RepeatFeeRates :
            update_protocol_fee(caller, new_fee_bps)
    \/ \E caller \in Accounts, transfer_ok \in BOOLEAN :
            withdraw_protocol_fees(caller, transfer_ok)

SpecRepeat == Init /\ [][NextRepeat]_vars

(***************************************************************************)
(* SpecWrap: one and the same creation repeated until contract_counter has *)
(* been through its whole range, with fee sweeps in between.               *)
(***************************************************************************)
NextWrap ==
    \/ /\ Cardinality(DOMAIN contracts) < CounterMax + 2
       /\ \E caller \in Senders, receiver \in Receivers, hashlock \in Hashlocks,
             value \in Values :
            new_contract(caller, receiver, hashlock, block_number + min_timelock,
                         SwapId, 1, 2, DestAmount, value)
    \/ \E transfer_ok \in BOOLEAN :
            withdraw_protocol_fees(admin, transfer_ok)

SpecWrap == Init /\ [][NextWrap]_vars

(***************************************************************************)
(* Properties.                                                             *)
(***************************************************************************)
Stored == DOMAIN contracts

IsOpen(contract) == ~contract.withdrawn /\ ~contract.refunded

\* What a call that changes nothing leaves alone: all but `last`.
NothingChanged ==
    UNCHANGED << contracts, contract_counter, admin, protocol_fee_bps,
                 protocol_fees, block_number, balance, paid, released,
                 unswept >>

\* C1: no stored contract is both withdrawn and refunded, and at most one
\* withdraw or refund on a contract id ever succeeds: its escrowed amount is
\* released at most once.
C1_ReleasedAtMostOnce ==
    \A id \in Stored :
        /\ ~(contracts[id].withdrawn /\ contracts[id].refunded)
        /\ released[id] <= 1

\* A withdrawn and paid contract on which a further withdraw was just rejected.
C1_Witness ==
    /\ last = Returned("withdraw", "AlreadyProcessed")
    /\ \E id \in Stored : contracts[id].withdrawn /\ released[id] = 1

\* C2: a withdraw succeeds only at a block strictly below the contract's
\* timelock and a refund only at a block at or above it; at every block
\* exactly one of the two timing checks passes; the block number never
\* decreases and a stored timelock never changes, so once the refund timing
\* check passes the withdraw timing check never passes again.
C2_WithdrawBeforeRefundFrom ==
    [][ /\ \A id \in Stored :
            /\ (validate_withdrawal_timing(contracts[id]) = Ok)
                 # (validate_refund_timing(contracts[id]) = Ok)
            /\ block_number >= contracts[id].timelock
                 => /\ id \in DOMAIN contracts'
                    /\ block_number' >= contracts'[id].timelock
        /\ block_number' >= block_number
        /\ last'.result = Ok /\ last'.op \in {"withdraw", "refund"} =>
             \A caller \in Accounts, id \in Stored, transfer_ok \in BOOLEAN :
                /\ \A preimage \in Preimages :
                     withdraw(caller, id, preimage, transfer_ok)
                        => block_number < contracts[id].timelock
                /\ refund(caller, id, transfer_ok)
                        => block_number >= contracts[id].timelock
      ]_vars

\* A withdraw rejected at the very block of the timelock.
C2_Witness ==
    /\ last = Returned("withdraw", "TimelockExpired")
    /\ \E id \in Stored : block_number = contracts[id].timelock

\* C3: a withdraw on a stored, open contract by an authorized caller before
\* the timelock, with a transfer that succeeds, returns Ok if and only if the
\* hash of the preimage is the hashlock; with any other preimage it returns
\* InvalidHashlock and changes nothing.
C3_WithdrawIffPreimage ==
    [][ last'.op = "withdraw" =>
          \A caller \in Accounts, id \in Stored, preimage \in Preimages :
             ( /\ IsOpen(contracts[id])
               /\ caller = contracts[id].receiver
                    \/ contracts[id].relayer = Some(caller)
               /\ block_number < contracts[id].timelock
               /\ contracts[id].amount <= balance
               /\ withdraw(caller, id, preimage, TRUE) )
             => IF compute_sha256(preimage) = contracts[id].hashlock
                THEN /\ last'.result = Ok
                     /\ contracts'[id].withdrawn
                     /\ contracts'[id].preimage = Some(preimage)
                ELSE /\ last'.result = "InvalidHashlock"
                     /\ NothingChanged
      ]_vars

\* A withdraw with a wrong preimage was just rejected on an open contract.
C3_Witness ==
    /\ last = Returned("withdraw", "InvalidHashlock")
    /\ \E id \in Stored : IsOpen(contracts[id])

\* C4 as stated: a withdraw succeeds only if the caller is the receiver.
C4_OnlyReceiverWithdraws ==
    [][ last' = Returned("withdraw", Ok) =>
          \A caller \in Accounts, id \in Stored, preimage \in Preimages,
             transfer_ok \in BOOLEAN :
                withdraw(caller, id, preimage, transfer_ok)
                   => caller = contracts[id].receiver
      ]_vars

\* C4 as amended: a withdraw succeeds only if the caller is the contract's
\* receiver or its registered relayer; a withdraw on a stored contract by any
\* other caller returns UnauthorizedWithdraw and changes nothing, whatever
\* the preimage.
C4_OnlyReceiverOrRelayerWithdraws ==
    [][ last'.op = "withdraw" =>
          \A caller \in Accounts, id \in Stored :
             ( /\ caller # contracts[id].receiver
               /\ contracts[id].relayer # Some(caller) )
             => \/ /\ last'.result = "UnauthorizedWithdraw"
                   /\ NothingChanged
                \/ \A preimage \in Preimages, transfer_ok \in BOOLEAN :
                      ~withdraw(caller, id, preimage, transfer_ok)
      ]_vars

\* A withdraw was just rejected as unauthorized on an open contract that has
\* a registered relayer.
C4_Witness ==
    /\ last = Returned("withdraw", "UnauthorizedWithdraw")
    /\ \E id \in Stored : IsOpen(contracts[id]) /\ contracts[id].relayer # None

\* C5: a refund succeeds only if the caller is the contract's sender, the
\* contract is neither withdrawn nor refunded and the block is at or after
\* the timelock; a refund on a stored contract by any other caller returns
\* UnauthorizedRefund and changes nothing.
C5_OnlySenderRefunds ==
    [][ last'.op = "refund" =>
          \A caller \in Accounts, id \in Stored, transfer_ok \in BOOLEAN :
             refund(caller, id, transfer_ok)
                => /\ last'.result = Ok
                      => /\ caller = contracts[id].sender
                         /\ IsOpen(contracts[id])
                         /\ block_number >= contracts[id].timelock
                   /\ caller # contracts[id].sender
                      => /\ last'.result = "UnauthorizedRefund"
                         /\ NothingChanged
      ]_vars

\* A refund was just rejected as unauthorized on an open contract whose
\* timelock has passed.
C5_Witness ==
    /\ last = Returned("refund", "UnauthorizedRefund")
    /\ \E id \in Stored :
          IsOpen(contracts[id]) /\ block_number >= contracts[id].timelock

\* C6: a successful withdraw moves exactly the contract's amount from the
\* escrow to the contract's receiver, whoever called it, and a successful
\* refund moves exactly the amount to the sender; a step in which value
\* leaves the escrow or reaches an account is a successful withdraw, refund
\* or fee sweep.
C6_ReleaseGoesToReceiverOrSender ==
    [][ /\ last' = Returned("withdraw", Ok) =>
             \A caller \in Accounts, id \in Stored, preimage \in Preimages :
                withdraw(caller, id, preimage, TRUE)
                   => /\ balance' = balance - contracts[id].amount
                      /\ paid' = [paid EXCEPT ![contracts[id].receiver] =
                                      @ + contracts[id].amount]
        /\ last' = Returned("refund", Ok) =>
             \A caller \in Accounts, id \in Stored :
                refund(caller, id, TRUE)
                   => /\ balance' = balance - contracts[id].amount
                      /\ paid' = [paid EXCEPT ![contracts[id].sender] =
                                      @ + contracts[id].amount]
        /\ (balance' < balance \/ paid' # paid)
             => /\ last'.result = Ok
                /\ last'.op \in {"withdraw", "refund", "withdraw_protocol_fees"}
      ]_vars

\* A withdraw just succeeded on a contract whose relayer is not its receiver,
\* and the receiver holds the amount.
C6_Witness ==
    /\ last = Returned("withdraw", Ok)
    /\ \E id \in Stored :
          /\ contracts[id].withdrawn
          /\ contracts[id].relayer # None
          /\ contracts[id].relayer # Some(contracts[id].receiver)
          /\ paid[contracts[id].receiver] = contracts[id].amount

\* C7 as stated: when the transfer inside withdraw or refund fails, the call
\* returns TransferFailed and the stored contracts are as before the call.
C7_FailedTransferChangesNothing ==
    [][ (last'.result = "TransferFailed" /\ last'.op \in {"withdraw", "refund"})
           => contracts' = contracts
      ]_vars

\* The record a successful new_contract has just stored.
Created == contracts'[CHOOSE id \in DOMAIN contracts' : id \notin Stored]

\* C8: for every successful new_contract with attached value g under fee rate
\* r, the stored fee is floor(g * r / 10000) and amount + fee is g.
C8_FeeIsFloorAndSplitsDeposit ==
    [][ last' = Returned("new_contract", Ok) =>
          \A caller \in Senders, receiver \in Receivers, hashlock \in Hashlocks,
             offset \in CreateOffsets, source_chain \in SourceChains,
             dest_chain \in Chains, g \in CreateValues :
                new_contract(caller, receiver, hashlock, block_number + offset,
                             SwapId, source_chain, dest_chain, DestAmount, g)
                   => /\ Cardinality(DOMAIN contracts') = Cardinality(Stored) + 1
                      /\ Created.fee * 10000 <= g * protocol_fee_bps
                      /\ g * protocol_fee_bps < (Created.fee + 1) * 10000
                      /\ Created.amount + Created.fee = g
      ]_vars

\* The spec's example: 1000 at 30 basis points gives fee 3 and amount 997.
C8_Witness ==
    /\ last = Returned("new_contract", Ok)
    /\ protocol_fee_bps = 30
    /\ \E id \in Stored : contracts[id].amount = 997 /\ contracts[id].fee = 3

\* C9: a new_contract with a non-zero attached value returns InvalidTimelock
\* when timelock <= block, TimelockTooShort when 0 < timelock - block <
\* min_timelock, TimelockTooLong when timelock - block > max_timelock, and in
\* each of these cases stores nothing; with timelock - block equal to
\* min_timelock or to max_timelock, distinct chains and a fee that does not
\* overflow it is accepted and the contract is stored.
C9_TimelockBounds ==
    [][ last'.op = "new_contract" =>
          \A caller \in Senders, receiver \in Receivers, hashlock \in Hashlocks,
             offset \in CreateOffsets, source_chain \in SourceChains,
             dest_chain \in Chains, value \in CreateValues \ {0} :
                new_contract(caller, receiver, hashlock, block_number + offset,
                             SwapId, source_chain, dest_chain, DestAmount, value)
                   => /\ offset <= 0 => last'.result = "InvalidTimelock"
                      /\ (0 < offset /\ offset < 100)
                            => last'.result = "TimelockTooShort"
                      /\ offset > 14400 => last'.result = "TimelockTooLong"
                      /\ last'.result \in {"InvalidTimelock", "TimelockTooShort",
                                           "TimelockTooLong"}
                            => NothingChanged
                      /\ ( /\ offset \in {100, 14400}
                           /\ source_chain # dest_chain
                           /\ value * protocol_fee_bps < 2 ^ BalanceBits )
                            => /\ last'.result = Ok
                               /\ Created.timelock = block_number + offset
      ]_vars

\* A contract was just accepted with timelock - block equal to max_timelock.
C9_Witness ==
    /\ last = Returned("new_contract", Ok)
    /\ \E id \in Stored : contracts[id].timelock = block_number + 14400

\* C10: a new_contract with source_chain equal to dest_chain, a timelock
\* within the bounds and a non-zero attached value returns InvalidChainId and
\* stores nothing; every stored contract has source_chain # dest_chain.
C10_ChainsDiffer ==
    [][ /\ last'.op = "new_contract" =>
             \A caller \in Senders, receiver \in Receivers, hashlock \in Hashlocks,
                offset \in CreateOffsets, chain \in SourceChains,
                value \in CreateValues \ {0} :
                   ( /\ new_contract(caller, receiver, hashlock,
                                     block_number + offset, SwapId, chain, chain,
                                     DestAmount, value)
                     /\ offset >= 100 /\ offset <= 14400 )
                   => /\ last'.result = "InvalidChainId"
                      /\ NothingChanged
        /\ \A id \in DOMAIN contracts' :
              contracts'[id].source_chain # contracts'[id].dest_chain
      ]_vars

\* A creation with equal chains was just rejected.
C10_Witness ==
    /\ last = Returned("new_contract", "InvalidChainId")
    /\ Stored = {}

\* C11: a new_contract with zero attached value returns InsufficientFunds
\* whatever its timelock and chains are, valid or not: the check comes before
\* every other validation.  It stores no contract and leaves
\* contract_counter and protocol_fees as they were.
C11_ZeroValueRejectedFirst ==
    [][ last'.op = "new_contract" =>
          \A caller \in Senders, receiver \in Receivers, hashlock \in Hashlocks,
             offset \in CreateOffsets, source_chain \in SourceChains,
             dest_chain \in Chains :
                new_contract(caller, receiver, hashlock, block_number + offset,
                             SwapId, source_chain, dest_chain, DestAmount, 0)
                   => /\ last'.result = "InsufficientFunds"
                      /\ contracts' = contracts
                      /\ contract_counter' = contract_counter
                      /\ protocol_fees' = protocol_fees
                      /\ NothingChanged
      ]_vars

\* A creation without attached value was just rejected; nothing is stored.
C11_Witness ==
    /\ last = Returned("new_contract", "InsufficientFunds")
    /\ Stored = {}
    /\ contract_counter = 0
    /\ protocol_fees = 0

\* The id a new_contract call with these arguments derives in this state, and
\* the counter value hashed into a contract id.
NextId(sender, receiver, hashlock, timelock, value) ==
    generate_contract_id(sender, receiver, calculate_fees(value).net_amount,
                         hashlock, timelock, SwapId,
                         (contract_counter + 1) % (CounterMax + 1))

CounterOf(id) == id[7]

\* A stored contract made by a call with these arguments at the present rate.
HasTwin(sender, receiver, hashlock, timelock, source_chain, dest_chain, value) ==
    \E id \in Stored :
        /\ contracts[id].sender = sender
        /\ contracts[id].receiver = receiver
        /\ contracts[id].amount = calculate_fees(value).net_amount
        /\ contracts[id].hashlock = hashlock
        /\ contracts[id].timelock = timelock
        /\ contracts[id].swap_id = SwapId
        /\ contracts[id].source_chain = source_chain
        /\ contracts[id].dest_chain = dest_chain

\* C12: the id of a successful new_contract is not the id of a stored
\* contract, the call adds exactly that id and leaves every stored record as
\* it was; and ContractAlreadyExists is returned only when the counter value
\* hashed into the id is that of a stored contract, so sharing sender,
\* receiver, amount, hashlock, timelock and swap_id is not enough to collide.
C12_DistinctIds ==
    [][ last'.op = "new_contract" =>
          \A caller \in Senders, receiver \in Receivers, hashlock \in Hashlocks,
             offset \in TimelockOffsets, dest_chain \in Chains,
             value \in RepeatValues :
                new_contract(caller, receiver, hashlock, block_number + offset,
                             SwapId, 1, dest_chain, DestAmount, value)
                   => LET id == NextId(caller, receiver, hashlock,
                                       block_number + offset, value)
                      IN  /\ last'.result = Ok
                               => /\ id \notin Stored
                                  /\ DOMAIN contracts' = Stored \cup {id}
                                  /\ \A old \in Stored :
                                        contracts'[old] = contracts[old]
                          /\ last'.result = "ContractAlreadyExists"
                               => \E old \in Stored :
                                     CounterOf(old) = contract_counter'
      ]_vars

\* Two stored contracts that share all six fields and differ in their ids.
C12_Witness ==
    /\ last = Returned("new_contract", Ok)
    /\ \E id1 \in Stored, id2 \in Stored :
          /\ id1 # id2
          /\ contracts[id1] = contracts[id2]

\* C13: a new_contract call whose sender, receiver, attached value,
\* hashlock, timelock, swap_id and chains are those of a stored contract is
\* rejected with ContractAlreadyExists.
C13_IdenticalCallRejected ==
    [][ last'.op = "new_contract" =>
          \A caller \in Senders, receiver \in Receivers, hashlock \in Hashlocks,
             offset \in TimelockOffsets, dest_chain \in Chains,
             value \in RepeatValues :
                ( /\ new_contract(caller, receiver, hashlock, block_number + offset,
                                  SwapId, 1, dest_chain, DestAmount, value)
                  /\ HasTwin(caller, receiver, hashlock, block_number + offset,
                             1, dest_chain, value) )
                   => last'.result = "ContractAlreadyExists"
      ]_vars

\* C14: every new_contract call that returns an error (InsufficientFunds, a
\* timelock error, InvalidChainId, Overflow, ContractAlreadyExists) leaves
\* the whole state unchanged: no record is inserted, and contract_counter and
\* protocol_fees keep their values.
C14_FailedCreationChangesNothing ==
    [][ ( /\ last'.op = "new_contract"
          /\ last'.result \in {"InsufficientFunds", "ConversionError",
                               "InvalidTimelock", "TimelockTooShort",
                               "TimelockTooLong", "InvalidChainId", "Overflow",
                               "ContractAlreadyExists"} )
        => /\ contracts' = contracts
           /\ contract_counter' = contract_counter
           /\ protocol_fees' = protocol_fees
      ]_vars

\* The sum of the fee fields of the stored contracts with these ids.
RECURSIVE FeeSum(_)
FeeSum(ids) ==
    IF ids = {} THEN 0
    ELSE LET id == CHOOSE x \in ids : TRUE
         IN  contracts[id].fee + FeeSum(ids \ {id})

\* C15: protocol_fees is always the sum of the fees of the contracts created
\* since the last successful withdraw_protocol_fees (or since construction);
\* a successful new_contract increases it by the fee of the contract it
\* stores, and it decreases only in a successful withdraw_protocol_fees.
C15_FeesAreSumOfUnswept ==
    /\ [](unswept \subseteq Stored /\ protocol_fees = FeeSum(unswept))
    /\ [][ /\ last' = Returned("new_contract", Ok)
               => protocol_fees' = protocol_fees + Created.fee
           /\ protocol_fees' < protocol_fees
               => /\ last' = Returned("withdraw_protocol_fees", Ok)
                  /\ protocol_fees' = 0
         ]_vars

\* Fees of 3 and 100 collected since a sweep that took an earlier fee.
C15_Witness ==
    /\ Stored \ unswept # {}
    /\ Cardinality(unswept) = 2
    /\ protocol_fees = 103

\* C16: withdraw_protocol_fees called by the admin returns InsufficientFunds
\* and changes nothing when protocol_fees is 0; with protocol_fees = f > 0 and
\* a transfer that succeeds it pays exactly f to the current admin, out of the
\* contract's balance, and sets protocol_fees to 0; with a transfer that fails
\* it returns TransferFailed and protocol_fees is f again, nothing else changed.
C16_SweepAllOrNothing ==
    [][ last'.op = "withdraw_protocol_fees" =>
          \A transfer_ok \in BOOLEAN :
             withdraw_protocol_fees(admin, transfer_ok)
                => LET f == protocol_fees
                   IN  /\ f = 0 => /\ last'.result = "InsufficientFunds"
                                   /\ NothingChanged
                       /\ (f > 0 /\ transfer_ok /\ f <= balance)
                             => /\ last'.result = Ok
                                /\ paid' = [paid EXCEPT ![admin] = @ + f]
                                /\ balance' = balance - f
                                /\ protocol_fees' = 0
                                /\ UNCHANGED << contracts, contract_counter, admin,
                                                protocol_fee_bps, released >>
                       /\ (f > 0 /\ ~(transfer_ok /\ f <= balance))
                             => /\ last'.result = "TransferFailed"
                                /\ protocol_fees' = f
                                /\ NothingChanged
      ]_vars

\* The admin installed by update_admin has just been paid the fee of 3.
C16_Witness ==
    /\ last = Returned("withdraw_protocol_fees", Ok)
    /\ admin = "bob"
    /\ paid["bob"] = 3
    /\ paid[Deployer] = 0
    /\ protocol_fees = 0

\* C17: protocol_fee_bps is 30 after construction and between 0 and 1000 in
\* every state; update_protocol_fee called by the admin with a rate above
\* 1000 returns InvalidFee and leaves the rate (and all else) unchanged, with
\* a rate up to 1000 it sets the rate; no other operation changes the rate.
C17_FeeRateWithinBounds ==
    /\ protocol_fee_bps = 30
    /\ [](protocol_fee_bps >= 0 /\ protocol_fee_bps <= 1000)
    /\ [][ /\ protocol_fee_bps' # protocol_fee_bps
               => last' = Returned("update_protocol_fee", Ok)
           /\ last'.op = "update_protocol_fee"
               => \A new_fee_bps \in CreateFeeRates :
                     update_protocol_fee(admin, new_fee_bps)
                        => IF new_fee_bps > 1000
                           THEN /\ last'.result = "InvalidFee"
                                /\ NothingChanged
                           ELSE /\ last'.result = Ok
                                /\ protocol_fee_bps' = new_fee_bps
         ]_vars

\* A rate of 1001 was just rejected while the rate was at its maximum.
C17_Witness ==
    /\ last = Returned("update_protocol_fee", "InvalidFee")
    /\ protocol_fee_bps = 1000

\* C18: update_admin, update_protocol_fee and withdraw_protocol_fees called
\* by an account that is not the current admin return Unauthorized and change
\* nothing; update_admin(a) called by the admin succeeds and makes a the
\* admin, so that ensure_admin then accepts a and no other account, the
\* previous admin included; a successful sweep pays the admin of that moment.
C18_OnlyCurrentAdmin ==
    /\ [](\A caller \in Accounts : ensure_admin(caller) = Ok <=> caller = admin)
    /\ [][ /\ last'.op = "update_admin"
               => /\ \A caller \in Accounts \ {admin}, a \in NewAdmins :
                        update_admin(caller, a)
                           => last'.result = "Unauthorized" /\ NothingChanged
                  /\ \A a \in NewAdmins :
                        update_admin(admin, a)
                           => /\ last'.result = Ok
                              /\ admin' = a
           /\ last'.op = "update_protocol_fee"
               => \A caller \in Accounts \ {admin}, new_fee_bps \in FeeRates :
                     update_protocol_fee(caller, new_fee_bps)
                        => last'.result = "Unauthorized" /\ NothingChanged
           /\ last'.op = "withdraw_protocol_fees"
               => /\ \A caller \in Accounts \ {admin}, transfer_ok \in BOOLEAN :
                        withdraw_protocol_fees(caller, transfer_ok)
                           => last'.result = "Unauthorized" /\ NothingChanged
                  /\ last'.result = Ok
                        => paid' = [paid EXCEPT ![admin] = @ + protocol_fees]
         ]_vars

\* After the handover to bob a sweep has paid bob, the deployer got nothing,
\* and an update_protocol_fee by another account was just refused.
C18_Witness ==
    /\ last = Returned("update_protocol_fee", "Unauthorized")
    /\ admin = "bob"
    /\ admin # Deployer
    /\ paid["bob"] = 3
    /\ paid[Deployer] = 0

\* C19: once a contract is withdrawn, every later withdraw on it by its
\* receiver or its relayer returns AlreadyProcessed whatever the preimage,
\* every later refund by its sender returns AlreadyProcessed, both change
\* nothing, and its withdrawn flag, refunded flag and stored preimage keep
\* their values in every step; the same after a refund.
C19_ClosedStaysClosed ==
    [][ \A id \in Stored :
          (contracts[id].withdrawn \/ contracts[id].refunded)
             => /\ contracts'[id].withdrawn = contracts[id].withdrawn
                /\ contracts'[id].refunded = contracts[id].refunded
                /\ contracts'[id].preimage = contracts[id].preimage
                /\ last'.op = "withdraw"
                     => \A caller \in Accounts :
                           ( \/ caller = contracts[id].receiver
                             \/ contracts[id].relayer = Some(caller) )
                           => \/ /\ last'.result = "AlreadyProcessed"
                                 /\ NothingChanged
                              \/ \A preimage \in Preimages, transfer_ok \in BOOLEAN :
                                    ~withdraw(caller, id, preimage, transfer_ok)
                /\ last'.op = "refund"
                     => \/ /\ last'.result = "AlreadyProcessed"
                           /\ NothingChanged
                        \/ \A transfer_ok \in BOOLEAN :
                              ~refund(contracts[id].sender, id, transfer_ok)
      ]_vars

\* A refund by the sender was just rejected on a contract that was withdrawn
\* and paid out after its relayer was registered.
C19_Witness ==
    /\ last = Returned("refund", "AlreadyProcessed")
    /\ \E id \in Stored :
          /\ contracts[id].withdrawn
          /\ contracts[id].preimage = Some(1)
          /\ contracts[id].relayer # None
          /\ released[id] = 1
          /\ block_number >= contracts[id].timelock

\* C20: for every stored contract the preimage is set exactly when withdrawn
\* is true, and a set preimage hashes to the hashlock; so get_secret gives
\* nothing for an open or refunded contract and for an unknown id, and the
\* revealed secret for a withdrawn contract.
C20_PreimageIffWithdrawn ==
    /\ \A id \in Stored :
          /\ contracts[id].preimage # None <=> contracts[id].withdrawn
          /\ contracts[id].preimage # None
                => compute_sha256(contracts[id].preimage[1]) = contracts[id].hashlock
          /\ ~contracts[id].withdrawn => get_secret(id) = None
          /\ contracts[id].withdrawn
                => /\ get_secret(id) # None
                   /\ compute_sha256(get_secret(id)[1]) = contracts[id].hashlock
    /\ get_secret(UnknownId) = None

\* A withdrawn contract whose secret get_secret returns, next to none for it
\* before: the preimage 1 of the hashlock 4.
C20_Witness ==
    \E id \in Stored :
        /\ contracts[id].withdrawn
        /\ ~contracts[id].refunded
        /\ get_secret(id) = Some(1)
        /\ contracts[id].hashlock = 4

\* C21: register_relayer on an unknown id returns ContractNotFound; on a
\* stored contract without relayer it succeeds, sets relayer to the caller
\* and changes nothing else, in that record or elsewhere; on a contract with
\* a relayer it returns RelayerAlreadySet and changes nothing; and no step of
\* any operation changes or clears a relayer that is set.
C21_RelayerSetOnce ==
    [][ /\ \A id \in Stored :
              contracts[id].relayer # None
                 => contracts'[id].relayer = contracts[id].relayer
        /\ last'.op = "register_relayer"
              => \A caller \in Relayers, id \in Ids :
                    register_relayer(caller, id)
                       => /\ id \notin Stored
                               => /\ last'.result = "ContractNotFound"
                                  /\ NothingChanged
                          /\ (id \in Stored /\ contracts[id].relayer = None)
                               => /\ last'.result = Ok
                                  /\ contracts' =
                                       [contracts EXCEPT ![id].relayer = Some(caller)]
                                  /\ UNCHANGED << contract_counter, admin,
                                                  protocol_fee_bps, protocol_fees,
                                                  block_number, balance, paid >>
                          /\ (id \in Stored /\ contracts[id].relayer # None)
                               => /\ last'.result = "RelayerAlreadySet"
                                  /\ NothingChanged
      ]_vars

\* A second registration was just rejected on a contract whose relayer is set.
C21_Witness ==
    /\ last = Returned("register_relayer", "RelayerAlreadySet")
    /\ \E id \in Stored : contracts[id].relayer = Some("carol")

\* C22: for a stored contract that is neither withdrawn nor refunded at a
\* block from its timelock on, a refund by its sender passes its checks and
\* its transfer is covered; the contract stays so until a refund closes it,
\* whatever any account does; and when the block number keeps advancing and
\* the sender's refund is taken with a transfer that succeeds, every open
\* contract is in the end withdrawn or refunded.
C22_RefundStaysEnabled ==
    /\ [](\A id \in Stored :
            (IsOpen(contracts[id]) /\ block_number >= contracts[id].timelock)
               => /\ validate_refund_auth(id, contracts[id].sender) = Ok
                  /\ validate_refund_timing(contracts[id]) = Ok
                  /\ refund_transfer(contracts[id], TRUE).result = Ok)
    /\ [][ \A id \in Stored :
              (IsOpen(contracts[id]) /\ block_number >= contracts[id].timelock)
                 => \/ /\ IsOpen(contracts'[id])
                       /\ block_number' >= contracts'[id].timelock
                    \/ /\ last'.op = "refund"
                       /\ contracts'[id].refunded
                       /\ \E transfer_ok \in BOOLEAN :
                             refund(contracts[id].sender, id, transfer_ok)
         ]_vars
    /\ (\E id \in Stored : IsOpen(contracts[id]))
          ~> (\A id \in Stored : ~IsOpen(contracts[id]))

\* A contract left open until its timelock has been refunded and paid back.
C22_Witness ==
    /\ last = Returned("refund", Ok)
    /\ \E id \in Stored :
          /\ contracts[id].refunded
          /\ ~contracts[id].withdrawn
          /\ released[id] = 1
          /\ paid[contracts[id].sender] = contracts[id].amount

\* Amounts around the places where amount * rate stops fitting the balance
\* type, and summands around the maximum of the type.
ArithValues ==
    {0, 1, 3334, 9999, 10000, 20000,
     BalanceMax \div MaxFeeBps, OverflowValue, OverflowValue + 1}

ArithSummands == {0, 1, 3, 2000, BalanceMax - 3, BalanceMax - 1, BalanceMax}

\* C23: with Balance of BalanceBits bits, calculate_fees of a gross amount g
\* at rate r returns Overflow when g * r does not fit, and otherwise the fee
\* floor(g * r / 10000) and the amount g minus that fee, never a value made
\* from a wrapped product; the checked addition new_contract uses on
\* protocol_fees gives the exact sum or nothing, never a wrapped sum; and a
\* new_contract whose product does not fit returns Overflow and stores
\* nothing, while one that succeeds adds the exact fee.
C23_CheckedArithmetic ==
    /\ [](\A g \in ArithValues :
            LET r == protocol_fee_bps
                out == calculate_fees(g)
            IN  IF g * r >= 2 ^ BalanceBits
                THEN out.result = "Overflow"
                ELSE /\ out.result = Ok
                     /\ out.fee = (g * r) \div 10000
                     /\ out.net_amount = g - (g * r) \div 10000)
    /\ [](\A a \in ArithSummands, b \in ArithSummands :
            IF a + b >= 2 ^ BalanceBits
            THEN checked_add(a, b) = None
            ELSE checked_add(a, b) = Some(a + b))
    /\ [][ last'.op = "new_contract" =>
             \A caller \in Senders, receiver \in Receivers, hashlock \in Hashlocks,
                dest_chain \in Chains \ SourceChains, g \in CreateValues \ {0} :
                   new_contract(caller, receiver, hashlock,
                                block_number + min_timelock, SwapId, 1, dest_chain,
                                DestAmount, g)
                      => IF g * protocol_fee_bps >= 2 ^ BalanceBits
                         THEN /\ last'.result = "Overflow"
                              /\ NothingChanged
                         ELSE /\ last'.result = Ok
                              /\ protocol_fees' =
                                    protocol_fees + (g * protocol_fee_bps) \div 10000
                              /\ protocol_fees' < 2 ^ BalanceBits
         ]_vars

\* A creation whose product OverflowValue * 1000 does not fit was just
\* rejected.
C23_Witness ==
    /\ last = Returned("new_contract", "Overflow")
    /\ protocol_fee_bps = 1000
    /\ OverflowValue * protocol_fee_bps > BalanceMax
    /\ 20000 * protocol_fee_bps <= BalanceMax
    /\ Stored = {}

\* The sum of the amounts of the stored contracts with these ids.
RECURSIVE AmountSum(_)
AmountSum(ids) ==
    IF ids = {} THEN 0
    ELSE LET id == CHOOSE x \in ids : TRUE
         IN  contracts[id].amount + AmountSum(ids \ {id})

\* C24: the value the contract holds is the sum of the amounts of the stored
\* contracts that are neither withdrawn nor refunded, plus protocol_fees.
C24_BalanceIsEscrowPlusFees ==
    balance = AmountSum({id \in Stored : IsOpen(contracts[id])}) + protocol_fees

\* The fields of a record that are set at creation.
Terms(contract) ==
    << contract.sender, contract.receiver, contract.amount, contract.fee,
       contract.hashlock, contract.timelock, contract.swap_id,
       contract.source_chain, contract.dest_chain >>

\* C25: a stored contract stays stored, and its sender, receiver, amount,
\* fee, hashlock, timelock, swap_id, source_chain and dest_chain are the same
\* after every step; update_protocol_fee changes no stored record, so the
\* new rate shows only in the fee of contracts created after it; a withdraw,
\* refund or register_relayer changes at most the record of the id it is
\* called on.
C25_TermsFixedAndOthersUntouched ==
    [][ /\ \A id \in Stored :
              /\ id \in DOMAIN contracts'
              /\ Terms(contracts'[id]) = Terms(contracts[id])
        /\ last'.op = "update_protocol_fee" => contracts' = contracts
        /\ last' = Returned("new_contract", Ok)
              => Created.fee = ((Created.amount + Created.fee) * protocol_fee_bps)
                                  \div 10000
        /\ (last'.op = "register_relayer" /\ contracts' # contracts)
              => \A caller \in Relayers, id \in Stored :
                    \/ \A other \in Stored \ {id} : contracts'[other] = contracts[other]
                    \/ ~register_relayer(caller, id)
        /\ (last'.op = "withdraw" /\ contracts' # contracts)
              => \A caller \in Receivers, id \in Stored :
                    \/ \A other \in Stored \ {id} : contracts'[other] = contracts[other]
                    \/ \A preimage \in PairPreimages :
                          ~withdraw(caller, id, preimage, TRUE)
        /\ (last'.op = "refund" /\ contracts' # contracts)
              => \A caller \in Senders, id \in Stored :
                    \/ \A other \in Stored \ {id} : contracts'[other] = contracts[other]
                    \/ ~refund(caller, id, TRUE)
      ]_vars

\* Two contracts created before and after a change of the rate from 30 to
\* 1000, with fees 3 and 100; the first was withdrawn, the second is open and
\* without relayer.
C25_Witness ==
    /\ last = Returned("withdraw", Ok)
    /\ \E id1 \in Stored, id2 \in Stored :
          /\ contracts[id1].fee = 3 /\ contracts[id1].withdrawn
          /\ contracts[id2].fee = 100 /\ IsOpen(contracts[id2])
          /\ contracts[id2].relayer = None

\* C26: once withdrawn or refunded is set in a stored record, no step of any
\* operation changes any field of that record; register_relayer called on
\* such a contract is among these operations.
C26_ClosedRecordFrozen ==
    [][ \A id \in Stored :
          (contracts[id].withdrawn \/ contracts[id].refunded)
             => contracts'[id] = contracts[id]
      ]_vars

\* C27: contract_counter never decreases, every successful new_contract
\* increases it by exactly one, and the counter value hashed into the id of a
\* newly stored contract is that of no contract stored before.
C27_CounterNeverRepeats ==
    [][ /\ contract_counter' >= contract_counter
        /\ last' = Returned("new_contract", Ok)
              => /\ contract_counter' = contract_counter + 1
                 /\ \A old \in Stored : CounterOf(old) # contract_counter'
      ]_vars

\* What the claimed order of checks makes of a withdraw call in this state:
\* the first check that fails, or "passed".
FirstFailingCheck(caller, id, preimage) ==
    IF id \notin Stored THEN "ContractNotFound"
    ELSE IF /\ caller # contracts[id].receiver
            /\ contracts[id].relayer # Some(caller) THEN "UnauthorizedWithdraw"
    ELSE IF contracts[id].withdrawn \/ contracts[id].refunded THEN "AlreadyProcessed"
    ELSE IF block_number >= contracts[id].timelock THEN "TimelockExpired"
    ELSE IF compute_sha256(preimage) # contracts[id].hashlock THEN "InvalidHashlock"
    ELSE "passed"

\* C28: a withdraw returns the error of the first failing check in the order
\* unknown id (ContractNotFound), caller neither receiver nor relayer
\* (UnauthorizedWithdraw), withdrawn or refunded (AlreadyProcessed), block >=
\* timelock (TimelockExpired), wrong preimage (InvalidHashlock), and then
\* changes nothing; only a call that passes all five reaches the transfer.
\* An unauthorized caller gets the same answer for every preimage.
C28_WithdrawCheckOrder ==
    [][ last'.op = "withdraw" =>
          \A caller \in Accounts, id \in Ids, preimage \in Preimages :
             LET first == FirstFailingCheck(caller, id, preimage)
             IN  \/ /\ first # "passed"
                    /\ last'.result = first
                    /\ NothingChanged
                 \/ /\ first = "passed"
                    /\ last'.result \in {Ok, "TransferFailed"}
                 \/ \A transfer_ok \in BOOLEAN :
                       ~withdraw(caller, id, preimage, transfer_ok)
      ]_vars

\* An account that is neither receiver nor relayer was just refused on a
\* contract that is also closed and past its timelock.
C28_Witness ==
    /\ last = Returned("withdraw", "UnauthorizedWithdraw")
    /\ \E id \in Stored :
          /\ contracts[id].refunded
          /\ contracts[id].relayer # None
          /\ block_number >= contracts[id].timelock

====
